---- MODULE Spec2Model ----
(***************************************************************************)
(* State-machine model of dialog_2_agents.py: the Flask-SocketIO handlers  *)
(* start_dialog / stop_dialog, the process-wide dictionaries stop_flags    *)
(* and dialogs, the non-blocking dialog_lock, the turn loop, the           *)
(* Inference Adapter generate_response and the Transcript Archiver         *)
(* save_dialog_to_file.                                                    *)
(*                                                                         *)
(* Python strings are sequences of one-character strings, so that strip,   *)
(* length tests and concatenation are computed rather than assumed.  The   *)
(* long Russian literals of the source are abbreviated to short ASCII      *)
(* texts; only their identity and their length class matter.               *)
(***************************************************************************)
EXTENDS Integers, Sequences, FiniteSets, TLC

VARIABLES model, stop_flags, dialogs, dialog_lock, threads, started, acks,
          afterTerminal, adapter, monitor

vars == <<model, stop_flags, dialogs, dialog_lock, threads, started, acks,
          afterTerminal, adapter, monitor>>

\* adapter: one call of generate_response taken on its own; monitor: the
\* Resource Monitor thread and the connect handler.  The dialog handlers
\* leave both alone.
aux == <<adapter, monitor>>

(***************************************************************************)
(* Bounds of the exploration.                                              *)
(***************************************************************************)
\* number of start_dialog requests received in one run
MaxStarts == 2
\* number of stop_dialog requests received in one run
MaxStops == 1
\* largest requested turn count
MaxSteps == 3

(***************************************************************************)
(* Values.                                                                 *)
(***************************************************************************)
\* request.sid of the connected clients
Sids == {"A", "B"}

\* a key absent from the request dictionary
Missing == [t |-> "missing"]
\* the values a request can carry: a string (a sequence of characters), an
\* int, a finite float (given in tenths: 25 is 2.5), the floats nan, inf and
\* -inf (json.loads accepts NaN, Infinity and -Infinity), a bool, None
StrV(s) == [t |-> "str", v |-> s]
IntV(n) == [t |-> "int", v |-> n]
FloatV(tenths) == [t |-> "float", v |-> tenths]
NaNV == [t |-> "nan"]
InfV(negative) == [t |-> "inf", v |-> negative]
BoolV(b) == [t |-> "bool", v |-> b]
NoneV == [t |-> "none"]

\* the value of an int, a bool or a finite float, in tenths
Tenths(x) ==
    IF x.t = "int" THEN 10 * x.v
    ELSE IF x.t = "bool" THEN (IF x.v THEN 10 ELSE 0)
    ELSE x.v

\* a == b of Python: numbers compare by value (True == 1 == 1.0), nan is
\* equal to nothing, itself included
PyEq(a, b) ==
    IF a.t = "nan" \/ b.t = "nan" THEN FALSE
    ELSE IF a.t \in {"int", "bool", "float"} /\ b.t \in {"int", "bool", "float"}
         THEN Tenths(a) = Tenths(b)
    ELSE a.t = b.t /\ a = b

\* The characters of a string are those of Latin-1 (a TLA+ string holds no
\* others).  The ones str.isspace() holds for: space, \n, \t, \r, \f, and
\* U+000B, U+001C..U+001F, U+0085, U+00A0 (written as themselves).
InfoSeparators == {"", "", "", ""}
Whitespace ==
    {" ", "\n", "\t", "\r", "\f", "", "", " "} \cup InfoSeparators
\* the whitespace int() skips around a number: not U+001C..U+001F
IntWhitespace == Whitespace \ InfoSeparators
Digits == <<"0", "1", "2", "3", "4", "5", "6", "7", "8", "9">>

RECURSIVE LStripIn(_, _)
LStripIn(s, W) == IF s # <<>> /\ Head(s) \in W THEN LStripIn(Tail(s), W) ELSE s

RECURSIVE RStripIn(_, _)
RStripIn(s, W) ==
    IF s # <<>> /\ s[Len(s)] \in W
    THEN RStripIn(SubSeq(s, 1, Len(s) - 1), W)
    ELSE s

LStrip(s) == LStripIn(s, Whitespace)
RStrip(s) == RStripIn(s, Whitespace)

\* str.strip()
Strip(s) == LStrip(RStrip(s))

DigitValue(c) == (CHOOSE i \in 1..10 : Digits[i] = c) - 1
IsDigit(c) == \E i \in 1..10 : Digits[i] = c

RECURSIVE DecimalValue(_)
DecimalValue(s) ==
    IF s = <<>> THEN 0
    ELSE 10 * DecimalValue(SubSeq(s, 1, Len(s) - 1)) + DigitValue(s[Len(s)])

\* the digits of a decimal literal of int(): digits with single underscores
\* between them
IsDecimalLiteral(body) ==
    /\ body # <<>>
    /\ \A i \in 1..Len(body) :
          \/ IsDigit(body[i])
          \/ /\ body[i] = "_" /\ 1 < i /\ i < Len(body)
             /\ IsDigit(body[i - 1]) /\ IsDigit(body[i + 1])

\* int() of a float truncates towards zero
Truncate(tenths) == IF tenths < 0 THEN 0 - ((0 - tenths) \div 10) ELSE tenths \div 10

\* int(x): the value, or raised = TRUE for ValueError / TypeError /
\* OverflowError (a string that is no number, None, nan, inf)
PyInt(x) ==
    IF x.t = "int" THEN [raised |-> FALSE, v |-> x.v]
    ELSE IF x.t = "bool" THEN [raised |-> FALSE, v |-> IF x.v THEN 1 ELSE 0]
    ELSE IF x.t = "float" THEN [raised |-> FALSE, v |-> Truncate(x.v)]
    ELSE IF x.t = "str" THEN
        LET s == LStripIn(RStripIn(x.v, IntWhitespace), IntWhitespace)
            neg == s # <<>> /\ Head(s) = "-"
            body == IF s # <<>> /\ Head(s) \in {"-", "+"} THEN Tail(s) ELSE s
            digits == SelectSeq(body, IsDigit)
        IN  IF IsDecimalLiteral(body)
            THEN [raised |-> FALSE,
                  v |-> IF neg THEN 0 - DecimalValue(digits) ELSE DecimalValue(digits)]
            ELSE [raised |-> TRUE, v |-> 0]
    ELSE [raised |-> TRUE, v |-> 0]

\* dict.get(key, default)
Get(data, key, default) == IF data[key].t = "missing" THEN default ELSE data[key]

\* defaults of handle_start_dialog
DefaultTopic == StrV(<<"E", "a", "r", "t", "h">>)
DefaultRole1Name == StrV(<<"I", "v", "a", "n">>)
DefaultRole2Name == StrV(<<"P", "e", "t", "r">>)
DefaultRole1Description == StrV(<<"d", "1">>)
DefaultRole2Description == StrV(<<"d", "2">>)
DefaultNumSteps == 7

Topic(data) == Get(data, "topic", DefaultTopic)
Role1Name(data) == Get(data, "role1_name", DefaultRole1Name)
Role1Description(data) == Get(data, "role1_description", DefaultRole1Description)
Role2Name(data) == Get(data, "role2_name", DefaultRole2Name)
Role2Description(data) == Get(data, "role2_description", DefaultRole2Description)
NumSteps(data) == PyInt(Get(data, "num_steps", IntV(DefaultNumSteps)))

RECURSIVE Decimal(_)
Decimal(n) == IF n < 10 THEN <<Digits[n + 1]>> ELSE Decimal(n \div 10) \o <<Digits[(n % 10) + 1]>>

\* f"{x}" of a request value
Str(x) ==
    IF x.t = "str" THEN x.v
    ELSE IF x.t = "int" THEN (IF x.v < 0 THEN <<"-">> \o Decimal(0 - x.v) ELSE Decimal(x.v))
    ELSE IF x.t = "float" THEN
        LET a == IF x.v < 0 THEN 0 - x.v ELSE x.v
        IN  (IF x.v < 0 THEN <<"-">> ELSE <<>>)
                \o Decimal(a \div 10) \o <<".">> \o Decimal(a % 10)
    ELSE IF x.t = "nan" THEN <<"n", "a", "n">>
    ELSE IF x.t = "inf" THEN (IF x.v THEN <<"-">> ELSE <<>>) \o <<"i", "n", "f">>
    ELSE IF x.t = "bool" THEN
        (IF x.v THEN <<"T", "r", "u", "e">> ELSE <<"F", "a", "l", "s", "e">>)
    ELSE <<"N", "o", "n", "e">>

\* the request dictionaries explored: the turn counts 0 and MaxSteps, a turn
\* count that is no number, and a request that gives only a numeric string
\* (carriage return, then 0_1: one turn) and nan as the first role name
Request(r1, r2, n) ==
    [topic |-> StrV(<<"X">>), role1_name |-> r1, role1_description |-> StrV(<<"p", "1">>),
     role2_name |-> r2, role2_description |-> StrV(<<"p", "2">>), num_steps |-> n]

Requests ==
    {Request(StrV(<<"A">>), StrV(<<"B">>), IntV(n)) : n \in {0, MaxSteps}}
    \cup {Request(StrV(<<"A">>), StrV(<<"B">>), StrV(<<"a", "b", "c">>)),
          [topic |-> Missing, role1_name |-> NaNV, role1_description |-> Missing,
           role2_name |-> Missing, role2_description |-> Missing,
           num_steps |-> StrV(<<"\r", "0", "_", "1">>)]}

(***************************************************************************)
(* Literals of the source.                                                 *)
(***************************************************************************)
\* "Привет, давай поспорим?"
Opener == <<"P", "r", "i", "v", "e", "t", "?">>
\* 'Ошибка: Модель не загружена.'
ModelMissingLine == <<"E", ":", " ", "n", "o", " ", "m", "o", "d", "e", "l">>
\* "Ошибка: Не удалось сгенерировать ответ."
GenerationFailedLine == <<"E", ":", " ", "f", "a", "i", "l", "e", "d">>
\* payload without a step (the acknowledgement of stop_dialog, dialog_error)
NoStep == 0 - 1

(***************************************************************************)
(* Inference Adapter.  The opaque model call either raises or returns a    *)
(* text; first and retry are the outcomes of the first and second call.    *)
(***************************************************************************)
Raises == [t |-> "raise"]
ModelReplies == {StrV(<<"h", "e", "l", "l", "o">>)}

MinResponseLen == 5

\* generate_response: the returned text and the number of model calls made.
\* The two prompts are built from topic, personality_description and
\* conversation_history; what the model answers to them is first and retry.
generate_response_le(topic, personality_description, conversation_history, first, retry) ==
    IF model = "None" THEN [text |-> ModelMissingLine, calls |-> 0]
    ELSE IF first = Raises THEN [text |-> GenerationFailedLine, calls |-> 1]
    ELSE LET response == Strip(first.v)
         IN  IF response = <<>> \/ Len(response) <= MinResponseLen
             THEN IF retry = Raises
                  THEN [text |-> GenerationFailedLine, calls |-> 2]
                  ELSE [text |-> Strip(Strip(retry.v)), calls |-> 2]
             ELSE [text |-> Strip(response), calls |-> 1]

generate_response(topic, personality_description, conversation_history, first, retry) ==
    IF model = "None" THEN [text |-> ModelMissingLine, calls |-> 0]
    ELSE IF first = Raises THEN [text |-> GenerationFailedLine, calls |-> 1]
    ELSE LET response == Strip(first.v)
         IN  IF response = <<>> \/ Len(response) < MinResponseLen
             THEN IF retry = Raises
                  THEN [text |-> GenerationFailedLine, calls |-> 2]
                  ELSE [text |-> Strip(Strip(retry.v)), calls |-> 2]
             ELSE [text |-> Strip(response), calls |-> 1]

\* the replies of the model tried on the adapter taken on its own
AdapterReplies ==
    {Raises, StrV(<<>>), StrV(<<" ">>), StrV(<<"o", "k">>), StrV(<<" ", "o", "k", "\n">>),
     StrV(<<"a", "b", "c", "d">>), StrV(<<" ", " ", "a", "b", "c", "d", " ", " ">>),
     StrV(<<"a", "b", "c", "d", "\r">>),
     StrV(<<"h", "e", "l", "l", "o">>), StrV(<<"\t", "h", "e", "l", "l", "o", " ">>),
     StrV(<<"l", "o", "n", "g", "e", "r", " ", "o", "n", "e">>)}

AdapterOff == [pc |-> "off", first |-> Raises, retry |-> Raises, text |-> <<>>, calls |-> 0]
MonitorOff == [pc |-> "off"]

(***************************************************************************)
(* Transcript Archiver.  fs is what the file system does to this call.     *)
(***************************************************************************)
FsOutcomes == {"ok", "makedirs_fails", "write_fails"}

\* save_dialog_to_file: os.makedirs runs before the try block
save_dialog_to_file(fs) ==
    [raised |-> fs = "makedirs_fails", written |-> fs = "ok"]

(***************************************************************************)
(* Dictionaries, the lock, emitted events.                                 *)
(***************************************************************************)
Put(d, k, v) == [x \in (DOMAIN d) \cup {k} |-> IF x = k THEN v ELSE d[x]]
Del(d, k) == [x \in (DOMAIN d) \ {k} |-> d[x]]
\* stop_flags.get(sid, False)
FlagGet(flags, sid) == IF sid \in DOMAIN flags THEN flags[sid] ELSE FALSE

\* dialog_lock.acquire(blocking=False)
TryAcquireOpen(locked) == [granted |-> TRUE, locked |-> TRUE]
TryAcquire(locked) == [granted |-> ~locked, locked |-> TRUE]

\* dialog_lock.release() in the finally block
ReleaseLockKept(locked) == locked
ReleaseLock(locked) == FALSE

\* emit(ev, {...}, to=sid): every handler emits to its own request.sid, so the
\* events are kept per handler invocation, in the order it emitted them
Event(ev, step, speaker, line) ==
    [ev |-> ev, step |-> step, speaker |-> speaker, line |-> line]

\* speaker of a turn: odd - role 1, even - role 2
SpeakerSwapped(step, data) == IF step % 2 = 1 THEN Role2Name(data) ELSE Role1Name(data)
Speaker(step, data) == IF step % 2 = 1 THEN Role1Name(data) ELSE Role2Name(data)
Personality(step, data) ==
    IF step % 2 = 1 THEN Role1Description(data) ELSE Role2Description(data)

\* f"{speaker}: {response}"
FormatLine(speaker, response) == Str(speaker) \o <<":", " ">> \o response

\* the request dictionary of a handler that has not read its parameters yet
Unread == [t |-> "unread"]

\* One invocation of handle_start_dialog: its position, its local variables
\* and the events it emitted.  History kept for the properties: hadRecord
\* (dialogs held the sid before the request), acquired, afterTerm (it asked for
\* the gate right after a dialog's terminal release), stopAt (the turn in
\* progress when the first stop_dialog of its connection arrived, 0 if none),
\* stopSent, fs (what the file system did to the archiver, kept until the
\* terminal event), gen (the calls of
\* the adapter).  held is the value of dialogs[sid] read by line 270 before it
\* stores the sum, kind the terminal event chosen at line 279.
NewThread(sid) ==
    [sid |-> sid, data |-> Unread, pc |-> "init", step |-> 0,
     conversation_history |-> <<>>, response |-> <<>>, outcome |-> "none",
     held |-> <<>>, kind |-> "none",
     out |-> <<>>, hadRecord |-> sid \in DOMAIN dialogs, acquired |-> FALSE,
     afterTerm |-> FALSE, stopAt |-> 0, stopSent |-> FALSE, fs |-> "none",
     gen |-> <<>>]

\* the handler invocations that have not returned yet
Threads == DOMAIN threads
Running == {"params", "try", "loop", "sleep", "publish", "append", "store",
            "after_loop", "archive", "terminal", "finally"}
Exited == {"done", "raised"}

(***************************************************************************)
(* Initial state: the state after the module has been imported.            *)
(***************************************************************************)
Init ==
    /\ model \in {"None", "Llama"}
    /\ stop_flags = <<>>
    /\ dialogs = <<>>
    /\ dialog_lock = FALSE
    /\ threads = <<>>
    /\ started = 0
    /\ acks = [sid \in Sids |-> 0]
    /\ afterTerminal = FALSE
    /\ adapter = AdapterOff
    /\ monitor = MonitorOff

(***************************************************************************)
(* handle_stop_dialog                                                      *)
(***************************************************************************)
\* the turn whose generation has not completed yet, 0 if there is none
TurnInProgress(th) ==
    IF th.pc \in {"params", "try"} THEN 1
    ELSE IF th.pc \in {"sleep", "publish"} THEN th.step
    ELSE IF th.pc \in {"loop", "append", "store"}
            /\ ~NumSteps(th.data).raised /\ th.step < NumSteps(th.data).v
         THEN th.step + 1
    ELSE 0

\* acks[sid]: the dialog_stopped acknowledgements emitted to sid (line 191)
Stops == acks["A"] + acks["B"]

\* The connection ids are interchangeable: "A" names the connection whose
\* request the server receives first.
InOrder(sid) == (started = 0 /\ Stops = 0) => sid = "A"

\* stop_flags[sid] = True (line 189)
SetStopFlagAll(flags, sid) == [x \in (DOMAIN flags) \cup {sid} |-> TRUE]
SetStopFlag(flags, sid) == Put(flags, sid, TRUE)

StopDialog(sid) ==
    /\ Stops < MaxStops
    /\ InOrder(sid)
    /\ stop_flags' = SetStopFlag(stop_flags, sid)
    /\ acks' = [acks EXCEPT ![sid] = @ + 1]
    /\ threads' = [t \in Threads |->
          IF threads[t].sid = sid /\ threads[t].pc \notin Exited
          THEN [threads[t] EXCEPT
                  !.stopSent = TRUE,
                  !.stopAt = IF @ = 0 THEN TurnInProgress(threads[t]) ELSE @]
          ELSE threads[t]]
    /\ UNCHANGED <<aux, model, dialogs, dialog_lock, started, afterTerminal>>

(***************************************************************************)
(* handle_start_dialog                                                     *)
(***************************************************************************)
\* The handlers run in threads of the server (allow_unsafe_werkzeug: the
\* threading mode), so a step holds one access to stop_flags, dialogs or
\* dialog_lock, with the local work and the emit next to it.

\* lines 196-198: the request arrives, the flag is reset
StartDialog(sid) ==
    /\ started < MaxStarts
    /\ InOrder(sid)
    /\ started' = started + 1
    /\ stop_flags' = Put(stop_flags, sid, FALSE)
    /\ threads' = Put(threads, started + 1, NewThread(sid))
    /\ UNCHANGED <<aux, model, dialogs, dialog_lock, acks, afterTerminal>>

\* line 201: the history is reset
InitDialog(t) ==
    /\ threads[t].pc = "init"
    /\ dialogs' = Put(dialogs, threads[t].sid, <<>>)
    /\ threads' = [threads EXCEPT ![t].pc = "acquire"]
    /\ UNCHANGED <<aux, model, stop_flags, dialog_lock, started, acks, afterTerminal>>

\* lines 204-207
Acquire(t) ==
    /\ threads[t].pc = "acquire"
    /\ LET got == TryAcquire(dialog_lock)
       IN  IF got.granted
           THEN /\ dialog_lock' = got.locked
                /\ threads' = [threads EXCEPT ![t].pc = "params", ![t].acquired = TRUE,
                                              ![t].afterTerm = afterTerminal]
           ELSE /\ dialog_lock' = dialog_lock
                /\ threads' = [threads EXCEPT
                      ![t].pc = "done", ![t].outcome = "rejected",
                      ![t].out = Append(@, Event("dialog_error", NoStep, <<>>, <<>>))]
    /\ afterTerminal' = FALSE
    /\ UNCHANGED <<aux, model, stop_flags, dialogs, started, acks>>

\* lines 209-223: the parameters of the request are read (data is what the
\* client sent); int() may raise, outside the try block
ReadParams(t, data) ==
    /\ threads[t].pc = "params"
    /\ IF NumSteps(data).raised
       THEN threads' = [threads EXCEPT ![t].pc = "raised", ![t].outcome = "error",
                                       ![t].data = data]
       ELSE threads' = [threads EXCEPT ![t].pc = "try", ![t].data = data]
    /\ UNCHANGED <<aux, model, stop_flags, dialogs, dialog_lock, started, acks, afterTerminal>>

\* lines 225-231
TryEnter(t) ==
    /\ threads[t].pc = "try"
    /\ IF model = "None"
       THEN threads' = [threads EXCEPT
                ![t].pc = "finally", ![t].outcome = "model_unavailable",
                ![t].out = Append(@, Event("new_line", 0, <<>>, ModelMissingLine))]
       ELSE threads' = [threads EXCEPT ![t].pc = "loop",
                                       ![t].conversation_history = <<>>]
    /\ UNCHANGED <<aux, model, stop_flags, dialogs, dialog_lock, started, acks, afterTerminal>>

\* lines 234-250: next value of range(1, num_steps + 1), checkpoint A, waiting
LoopHead(t) ==
    /\ threads[t].pc = "loop"
    /\ LET th == threads[t]
           step == th.step + 1
       IN  IF th.step >= NumSteps(th.data).v
           THEN threads' = [threads EXCEPT ![t].pc = "after_loop"]
           ELSE IF FlagGet(stop_flags, th.sid)
           THEN threads' = [threads EXCEPT ![t].pc = "after_loop", ![t].step = step]
           ELSE threads' = [threads EXCEPT
                    ![t].pc = "sleep", ![t].step = step,
                    ![t].out = Append(@,
                        Event("waiting", step, Speaker(step, th.data), <<>>))]
    /\ UNCHANGED <<aux, model, stop_flags, dialogs, dialog_lock, started, acks, afterTerminal>>

\* line 259: the first turn is scripted
UsesOpener(step, speaker, role1_name) == step = 1 /\ PyEq(speaker, role1_name)

\* lines 253-262: the pause, checkpoint B, the opener or the adapter; gen
\* records the turn and the history of every call of the adapter
Generate(t) ==
    /\ threads[t].pc = "sleep"
    /\ LET th == threads[t]
       IN  IF FlagGet(stop_flags, th.sid)
           THEN threads' = [threads EXCEPT ![t].pc = "after_loop"]
           ELSE IF UsesOpener(th.step, Speaker(th.step, th.data), Role1Name(th.data))
           THEN threads' = [threads EXCEPT ![t].pc = "publish", ![t].response = Opener]
           ELSE \E first \in ModelReplies, retry \in ModelReplies :
                  threads' = [threads EXCEPT
                      ![t].pc = "publish",
                      ![t].gen = Append(@, [step |-> th.step,
                                            history |-> th.conversation_history]),
                      ![t].response =
                          generate_response(Topic(th.data), Personality(th.step, th.data),
                                            th.conversation_history, first, retry).text]
    /\ UNCHANGED <<aux, model, stop_flags, dialogs, dialog_lock, started, acks, afterTerminal>>

\* line 264: checkpoint C
Publish(t) ==
    /\ threads[t].pc = "publish"
    /\ threads' = [threads EXCEPT
          ![t].pc = IF FlagGet(stop_flags, threads[t].sid) THEN "after_loop" ELSE "append"]
    /\ UNCHANGED <<aux, model, stop_flags, dialogs, dialog_lock, started, acks, afterTerminal>>

\* lines 268-270: the line, the local history, and the read of dialogs[sid]
\* of "dialogs[sid] += ...", which raises KeyError when the entry is gone
AppendRead(t) ==
    /\ threads[t].pc = "append"
    /\ LET th == threads[t]
           new_line == FormatLine(Speaker(th.step, th.data), th.response)
       IN  IF th.sid \notin DOMAIN dialogs
           THEN threads' = [threads EXCEPT
                    ![t].pc = "finally", ![t].outcome = "error",
                    ![t].conversation_history = @ \o new_line \o <<"\n">>]
           ELSE threads' = [threads EXCEPT
                    ![t].pc = "store", ![t].held = dialogs[th.sid],
                    ![t].conversation_history = @ \o new_line \o <<"\n">>]
    /\ UNCHANGED <<aux, model, stop_flags, dialogs, dialog_lock, started, acks, afterTerminal>>

\* lines 270-276: the store of "dialogs[sid] += ...", then new_line
AppendStore(t) ==
    /\ threads[t].pc = "store"
    /\ LET th == threads[t]
           new_line == FormatLine(Speaker(th.step, th.data), th.response)
       IN  /\ dialogs' = Put(dialogs, th.sid, th.held \o new_line \o <<"\n">>)
           /\ threads' = [threads EXCEPT
                 ![t].pc = "loop", ![t].held = <<>>,
                 ![t].out = Append(@, Event("new_line", th.step, <<>>, new_line))]
    /\ UNCHANGED <<aux, model, stop_flags, dialog_lock, started, acks, afterTerminal>>

\* lines 279-280 / 285: the flag is read again and chooses the terminal event;
\* the log line raises NameError when step is unbound (empty range)
Finalize(t) ==
    /\ threads[t].pc = "after_loop"
    /\ LET th == threads[t]
           kind == IF ~FlagGet(stop_flags, th.sid)
                   THEN "dialog_completed" ELSE "dialog_stopped"
       IN  IF th.step = 0
           THEN threads' = [threads EXCEPT ![t].pc = "finally", ![t].outcome = "error"]
           ELSE threads' = [threads EXCEPT ![t].pc = "archive", ![t].kind = kind]
    /\ UNCHANGED <<aux, model, stop_flags, dialogs, dialog_lock, started, acks, afterTerminal>>

\* lines 281 / 286: dialogs[sid] is read (KeyError when it is gone) and the
\* archiver runs
Archive(t) ==
    /\ threads[t].pc = "archive"
    /\ LET th == threads[t]
       IN  IF th.sid \notin DOMAIN dialogs
           THEN threads' = [threads EXCEPT ![t].pc = "finally", ![t].outcome = "error"]
           ELSE \E fs \in FsOutcomes :
                  IF save_dialog_to_file(fs).raised
                  THEN threads' = [threads EXCEPT ![t].pc = "finally",
                                      ![t].outcome = "error", ![t].fs = fs]
                  ELSE threads' = [threads EXCEPT ![t].pc = "terminal", ![t].fs = fs]
    /\ UNCHANGED <<aux, model, stop_flags, dialogs, dialog_lock, started, acks, afterTerminal>>

\* lines 282-283 / 287-288: the terminal event, then del dialogs[sid]
\* (KeyError when the entry is gone)
Terminal(t) ==
    /\ threads[t].pc = "terminal"
    /\ LET th == threads[t]
       IN  /\ threads' = [threads EXCEPT
                 ![t].pc = "finally", ![t].fs = "none",
                 ![t].outcome = IF th.sid \notin DOMAIN dialogs THEN "error"
                                ELSE IF th.kind = "dialog_completed" THEN "completed"
                                ELSE "stopped",
                 ![t].out = Append(@, Event(th.kind, th.step, <<>>, <<>>))]
           /\ dialogs' = Del(dialogs, th.sid)
    /\ UNCHANGED <<aux, model, stop_flags, dialog_lock, started, acks, afterTerminal>>

\* lines 290-291
Release(t) ==
    /\ threads[t].pc = "finally"
    /\ dialog_lock' = ReleaseLock(dialog_lock)
    /\ threads' = [threads EXCEPT
          ![t].pc = IF threads[t].outcome = "error" THEN "raised" ELSE "done"]
    /\ afterTerminal' = (threads[t].outcome \in {"completed", "stopped"})
    /\ UNCHANGED <<aux, model, stop_flags, dialogs, started, acks>>

\* the handler returns to the SocketIO dispatcher (line 207, 229 or the end of
\* the function), or its exception leaves it: the invocation is over
Return(t) ==
    /\ threads[t].pc \in Exited
    /\ threads' = Del(threads, t)
    /\ UNCHANGED <<aux, model, stop_flags, dialogs, dialog_lock, started, acks, afterTerminal>>

\* Reading the parameters, entering the try block and returning touch nothing
\* that another handler reads or writes (model is never reassigned), so they
\* commute with every step of every other handler: they are taken as soon as
\* they are enabled, which leaves out no outcome of the program.
Local == {"params", "try", "done", "raised"}
Quiet == \A t \in Threads : threads[t].pc \notin Local

Next ==
    \/ Quiet /\ \E sid \in Sids : StartDialog(sid)
    \/ Quiet /\ \E sid \in Sids : StopDialog(sid)
    \/ Quiet /\ \E t \in Threads : InitDialog(t)
    \/ Quiet /\ \E t \in Threads : Acquire(t)
    \/ \E t \in Threads, data \in Requests : ReadParams(t, data)
    \/ \E t \in Threads : TryEnter(t)
    \/ Quiet /\ \E t \in Threads : LoopHead(t)
    \/ Quiet /\ \E t \in Threads : Generate(t)
    \/ Quiet /\ \E t \in Threads : Publish(t)
    \/ Quiet /\ \E t \in Threads : AppendRead(t)
    \/ Quiet /\ \E t \in Threads : AppendStore(t)
    \/ Quiet /\ \E t \in Threads : Finalize(t)
    \/ Quiet /\ \E t \in Threads : Archive(t)
    \/ Quiet /\ \E t \in Threads : Terminal(t)
    \/ Quiet /\ \E t \in Threads : Release(t)
    \/ \E t \in Threads : Return(t)

Spec == Init /\ [][Next]_vars

(***************************************************************************)
(* The Inference Adapter on its own: one call of generate_response for     *)
(* every pair of outcomes of the two model calls.                          *)
(***************************************************************************)
InitAdapter ==
    /\ model \in {"None", "Llama"}
    /\ stop_flags = <<>>
    /\ dialogs = <<>>
    /\ dialog_lock = FALSE
    /\ threads = <<>>
    /\ started = 0
    /\ acks = [sid \in Sids |-> 0]
    /\ afterTerminal = FALSE
    /\ monitor = MonitorOff
    /\ \E first \in AdapterReplies, retry \in AdapterReplies :
          adapter = [pc |-> "ready", first |-> first, retry |-> retry,
                     text |-> <<>>, calls |-> 0]

\* lines 135-164
AdapterCall ==
    /\ adapter.pc = "ready"
    /\ LET r == generate_response(DefaultTopic, DefaultRole2Description, <<>>,
                                  adapter.first, adapter.retry)
       IN  adapter' = [adapter EXCEPT !.pc = "returned", !.text = r.text,
                                      !.calls = r.calls]
    /\ UNCHANGED <<model, stop_flags, dialogs, dialog_lock, threads, started, acks,
                   afterTerminal, monitor>>

NextAdapter == AdapterCall

SpecAdapter == InitAdapter /\ [][NextAdapter]_vars

(***************************************************************************)
(* The Resource Monitor thread (update_gpu_status) and handle_connect.     *)
(* A sample is what GPUtil.getGPUs() does: it raises, returns no GPU, or   *)
(* returns a first GPU whose load is given here in percent (gpu.load is    *)
(* that percentage divided by 100).                                        *)
(***************************************************************************)
LoadPercents == {0, 10, 79, 80, 81, 95, 100}
GpuSamples ==
    {[k |-> "raises", load |-> 0], [k |-> "none", load |-> 0]}
        \cup {[k |-> "gpu", load |-> p] : p \in LoadPercents}

\* gpu.load * 100 > 80
BusyThreshold == 80

\* lines 34-52
check_gpu_status_ge(sample) ==
    IF sample.k = "raises" THEN "error"
    ELSE IF sample.k = "none" THEN "no_gpu"
    ELSE IF sample.load >= BusyThreshold THEN "busy"
    ELSE "free"

check_gpu_status(sample) ==
    IF sample.k = "raises" THEN "error"
    ELSE IF sample.k = "none" THEN "no_gpu"
    ELSE IF sample.load > BusyThreshold THEN "busy"
    ELSE "free"

\* lines 123-126 and 178-181: "GPU занят", "GPU свободен",
\* "Отсутствует GPU или ошибка"
StatusMessage(status) ==
    IF status = "busy" THEN "GPU busy"
    ELSE IF status = "free" THEN "GPU free"
    ELSE "no GPU or error"

\* a gpu_status payload, with the sample it was computed from
NoPayload == [sent |-> FALSE]
GpuStatus(sample) ==
    LET status == check_gpu_status(sample)
    IN  [sent |-> TRUE, sample |-> sample, status |-> status,
         message |-> StatusMessage(status)]

InitMonitor ==
    /\ model \in {"None", "Llama"}
    /\ stop_flags = <<>>
    /\ dialogs = <<>>
    /\ dialog_lock = FALSE
    /\ threads = <<>>
    /\ started = 0
    /\ acks = [sid \in Sids |-> 0]
    /\ afterTerminal = FALSE
    /\ adapter = AdapterOff
    /\ monitor = [pc |-> "check", pending |-> NoPayload, broadcast |-> NoPayload,
                  connect |-> NoPayload]

MonitorUnchanged ==
    UNCHANGED <<model, stop_flags, dialogs, dialog_lock, threads, started, acks,
                afterTerminal, adapter>>

\* lines 121-126: the status and the message of this tick
MonitorCheck(sample) ==
    /\ monitor.pc = "check"
    /\ monitor' = [monitor EXCEPT !.pc = "emit", !.pending = GpuStatus(sample)]
    /\ MonitorUnchanged

\* lines 127-128: the broadcast; an exception of sock.emit is not caught and
\* ends the thread
MonitorEmit(ok) ==
    /\ monitor.pc = "emit"
    /\ monitor' = IF ok THEN [monitor EXCEPT !.pc = "sleep", !.broadcast = monitor.pending]
                        ELSE [monitor EXCEPT !.pc = "dead"]
    /\ MonitorUnchanged

\* line 129
MonitorSleep ==
    /\ monitor.pc = "sleep"
    /\ monitor' = [monitor EXCEPT !.pc = "check"]
    /\ MonitorUnchanged

\* lines 172-182
Connect(sample) ==
    /\ monitor' = [monitor EXCEPT !.connect = GpuStatus(sample)]
    /\ MonitorUnchanged

NextMonitor ==
    \/ \E sample \in GpuSamples : MonitorCheck(sample)
    \/ \E ok \in BOOLEAN : MonitorEmit(ok)
    \/ MonitorSleep
    \/ \E sample \in GpuSamples : Connect(sample)

SpecMonitor == InitMonitor /\ [][NextMonitor]_vars


(***************************************************************************)
(* Properties.                                                             *)
(***************************************************************************)
RECURSIVE Count(_, _)
\* number of events of one of the kinds evs in a handler's out
Count(out, evs) ==
    IF out = <<>> THEN 0
    ELSE Count(Tail(out), evs) + (IF Head(out).ev \in evs THEN 1 ELSE 0)

InGate(t) == threads[t].pc \in Running
\* the step of this transition appended an event of kind ev to t's out
Emits(t, ev) ==
    /\ t \in DOMAIN threads'
    /\ Len(threads'[t].out) = Len(threads[t].out) + 1
    /\ threads'[t].out[Len(threads'[t].out)].ev = ev
\* t makes its attempt on the gate in this transition
Attempts(t) ==
    /\ threads[t].pc = "acquire"
    /\ t \in DOMAIN threads'
    /\ threads'[t].pc # "acquire"

\* C1: gate mutual exclusion.  At most one start_dialog handler is between a
\* successful acquisition of dialog_lock and its release; a handler that makes
\* its attempt on the gate while another one is there is denied and answers
\* dialog_error; and while a handler is there no other handler emits new_line.
C1_MutexInv == Cardinality({t \in Threads : InGate(t)}) <= 1
C1_DenyStep ==
    \A t \in Threads, u \in Threads :
        /\ (Attempts(t) /\ u # t /\ InGate(u)) =>
              /\ threads'[t].pc = "done"
              /\ threads'[t].outcome = "rejected"
              /\ Emits(t, "dialog_error")
              /\ threads'[u] = threads[u]
        /\ (InGate(u) /\ Emits(t, "new_line")) => t = u
C1_GateMutualExclusion == [](C1_MutexInv) /\ [][C1_DenyStep]_vars
\* connection B was denied while A's loop, which has published a turn, runs
C1_Witness ==
    \E t \in Threads, u \in Threads :
        /\ threads[t].pc \in {"loop", "sleep", "publish"}
        /\ Count(threads[t].out, {"new_line"}) >= 1
        /\ threads[u].outcome = "rejected"
        /\ threads[u].sid # threads[t].sid

\* C2: guaranteed release.  Whenever the gate is held, a handler that acquired
\* it and has not exited yet is there to release it: a handler that has exited
\* (by return or by an error raised after the acquisition) has released it.
C2_GuaranteedRelease ==
    dialog_lock => \E t \in Threads : threads[t].acquired /\ InGate(t)

\* C3: after a dialog has emitted its terminal notification and its handler
\* has released the gate, the gate is free, and the next handler to make its
\* attempt on the gate is admitted and emits no dialog_error.
C3_FreeInv == afterTerminal => ~dialog_lock
C3_AdmitStep ==
    \A t \in Threads :
        (Attempts(t) /\ afterTerminal) =>
            /\ threads'[t].pc = "params"
            /\ threads'[t].out = threads[t].out
            /\ dialog_lock'
C3_GateFreeAfterTerminal == [](C3_FreeInv) /\ [][C3_AdmitStep]_vars
\* a second request was admitted right after a dialog's terminal release and
\* runs its loop
C3_Witness ==
    \E t \in Threads :
        threads[t].afterTerm /\ threads[t].pc = "sleep" /\ started >= 2

\* C4: cancellation within one turn.  If the owning connection sent
\* stop_dialog while turn k's generation had not completed, the loop never
\* goes beyond turn k+1 and never emits new_line for turn k+2 or higher.
C4_StopWithinOneTurn ==
    \A t \in Threads :
        threads[t].stopAt > 0 =>
            /\ threads[t].step <= threads[t].stopAt + 1
            /\ \A i \in 1..Len(threads[t].out) :
                  threads[t].out[i].ev = "new_line" =>
                      threads[t].out[i].step < threads[t].stopAt + 2

\* prefix test on texts
StartsWith(s, p) == Len(s) >= Len(p) /\ SubSeq(s, 1, Len(p)) = p

\* C5: within one dialog the new_line events carry the turn indices 1, 2, 3,
\* ... with no gap and no repeat, the line of turn i starts with the name of
\* persona 1 when i is odd and of persona 2 when i is even, and each new_line
\* is preceded by a waiting event with the same turn index and speaker.
C5_TurnOrder ==
    \A t \in Threads :
        model # "None" =>
            LET out == threads[t].out
                name(i) == IF i % 2 = 1 THEN Role1Name(threads[t].data)
                           ELSE Role2Name(threads[t].data)
            IN  \A p \in 1..Len(out) :
                    out[p].ev = "new_line" =>
                        /\ out[p].step = Count(SubSeq(out, 1, p), {"new_line"})
                        /\ StartsWith(out[p].line, Str(name(out[p].step)) \o <<":", " ">>)
                        /\ \E q \in 1..(p - 1) :
                              /\ out[q].ev = "waiting"
                              /\ out[q].step = out[p].step
                              /\ out[q].speaker = name(out[p].step)
\* a dialog has published three turns
C5_Witness ==
    \E t \in Threads : Count(threads[t].out, {"new_line"}) >= 3

\* C6: an admitted dialog of N >= 1 turns whose connection sent no
\* stop_dialog has, when its handler exits, emitted exactly N new_line events
\* followed by one dialog_completed carrying N, and no dialog_stopped.
C6_CompletesAfterN ==
    \A t \in Threads :
        LET th == threads[t]
        IN  (/\ th.pc \in Exited /\ th.acquired /\ model # "None"
             /\ th.data # Unread /\ ~NumSteps(th.data).raised
             /\ NumSteps(th.data).v >= 1 /\ ~th.stopSent) =>
                /\ Count(th.out, {"new_line"}) = NumSteps(th.data).v
                /\ Count(th.out, {"dialog_completed"}) = 1
                /\ Count(th.out, {"dialog_stopped"}) = 0
                /\ th.out[Len(th.out)].ev = "dialog_completed"
                /\ th.out[Len(th.out)].step = NumSteps(th.data).v

\* C7: archival is best-effort.  Whatever step of the archiver fails, the
\* finalization that called it still emits the terminal notification and
\* destroys the session record.
C7_FinalizeStep ==
    \A t \in Threads :
        /\ (/\ threads[t].pc = "archive"
            /\ threads'[t].pc # "archive"
            /\ threads'[t].fs \in {"makedirs_fails", "write_fails"}) =>
               threads'[t].pc = "terminal"
        /\ (/\ threads[t].pc = "terminal"
            /\ threads'[t].pc # "terminal") =>
               /\ \/ Emits(t, "dialog_completed")
                  \/ Emits(t, "dialog_stopped")
               /\ threads[t].sid \notin DOMAIN dialogs'
C7_ArchivalBestEffort == [][C7_FinalizeStep]_vars

\* C8: admission errors create no session.  When a request ends as Rejected
\* or as ModelUnavailable, the store holds no transcript record for its
\* connection that was not there before the request, and the gate is not held
\* for it.
C8_NoSessionOnAdmissionError ==
    \A t \in Threads :
        (threads[t].pc = "done" /\ threads[t].outcome \in {"rejected", "model_unavailable"}) =>
            /\ threads[t].sid \in DOMAIN dialogs => threads[t].hadRecord
            /\ threads[t].outcome = "model_unavailable" => ~dialog_lock

\* C9: session records live for one dialog only.  When the handler of a
\* completed or cancelled dialog returns, neither dialogs nor stop_flags holds
\* its connection id.
C9_StoreEmptiedAtEnd ==
    \A t \in Threads :
        (threads[t].pc = "done" /\ threads[t].outcome \in {"completed", "stopped"}) =>
            /\ threads[t].sid \notin DOMAIN dialogs
            /\ threads[t].sid \notin DOMAIN stop_flags

\* C10: with the model absent the request ends as ModelUnavailable: it emits
\* no new_line and no waiting event, and reports the failure as dialog_error.
C10_ModelUnavailable ==
    \A t \in Threads :
        threads[t].outcome = "model_unavailable" =>
            /\ Count(threads[t].out, {"new_line", "waiting"}) = 0
            /\ Count(threads[t].out, {"dialog_error"}) = 1


\* the connection sid sends stop_dialog in this transition
StopsNow(sid) == acks'[sid] = acks[sid] + 1

\* C11: stop_dialog affects only the calling connection.  A stop_dialog of
\* connection B changes neither the cancellation flag nor the transcript nor
\* the handler of any other connection, and a dialog leaves its loop at a
\* checkpoint or ends as cancelled only if its own connection sent stop_dialog.
C11_StopStep ==
    \A b \in Sids :
        StopsNow(b) =>
            /\ \A a \in (DOMAIN stop_flags) \ {b} :
                  a \in DOMAIN stop_flags' /\ stop_flags'[a] = stop_flags[a]
            /\ DOMAIN stop_flags' \subseteq (DOMAIN stop_flags) \cup {b}
            /\ dialogs' = dialogs
            /\ \A t \in Threads : threads[t].sid # b => threads'[t] = threads[t]
C11_OwnStopInv ==
    \A t \in Threads :
        (\/ threads[t].outcome = "stopped"
         \/ /\ threads[t].pc \in {"after_loop", "archive", "terminal"}
            /\ Count(threads[t].out, {"new_line"}) < NumSteps(threads[t].data).v)
        => threads[t].stopSent
C11_StopOnlyOwnConnection == [](C11_OwnStopInv) /\ [][C11_StopStep]_vars
\* B has sent stop_dialog while A's dialog, which never saw a stop of its own,
\* has published a turn and goes on
C11_Witness ==
    \E t \in Threads :
        /\ threads[t].sid = "A" /\ threads[t].pc = "sleep" /\ threads[t].step >= 2
        /\ ~threads[t].stopSent
        /\ acks["B"] >= 1 /\ FlagGet(stop_flags, "B")


\* a request whose parameters are missing or malformed
Malformed(data) ==
    \/ \E key \in DOMAIN data : data[key].t = "missing"
    \/ data.num_steps.t # "int"
    \/ NumSteps(data).raised
    \/ NumSteps(data).v < 1

\* C12: operator errors are defaulted, not rejected.  A request with missing
\* or malformed parameters that found the gate free (and the model loaded)
\* has, when its handler exits, emitted one terminal notification, and the
\* gate is released.
C12_OperatorErrorsDefaulted ==
    \A t \in Threads :
        (/\ threads[t].pc \in Exited /\ threads[t].acquired /\ model # "None"
         /\ threads[t].data # Unread /\ Malformed(threads[t].data)) =>
            /\ Count(threads[t].out, {"dialog_completed", "dialog_stopped"}) = 1
            /\ ~dialog_lock


\* C13: retry policy of the Inference Adapter.  With a model loaded the
\* adapter calls it once or twice; twice exactly when the first call returned
\* a text that is empty or shorter than 5 characters once stripped, and then
\* the stripped retry is returned, however short; otherwise the stripped first
\* text is returned.  A call that raises gives the fixed diagnostic text.
C13_RetryPolicy ==
    (adapter.pc = "returned" /\ model = "Llama") =>
        LET f == adapter.first
            r == adapter.retry
            short == f # Raises /\ Len(Strip(f.v)) < 5
        IN  /\ adapter.calls \in {1, 2}
            /\ adapter.calls = 2 <=> short
            /\ f = Raises => adapter.text = GenerationFailedLine
            /\ (short /\ r = Raises) => adapter.text = GenerationFailedLine
            /\ (short /\ r # Raises) => adapter.text = Strip(r.v)
            /\ (f # Raises /\ ~short) => adapter.text = Strip(f.v)
\* empty first reply, "ok" on the retry: the answer is "ok" after two calls
C13_Witness ==
    /\ adapter.pc = "returned" /\ model = "Llama"
    /\ adapter.first = StrV(<<>>) /\ adapter.retry = StrV(<<"o", "k">>)
    /\ adapter.text = <<"o", "k">> /\ adapter.calls = 2


\* the lines of the new_line events of turns before turn k, each followed by
\* a newline, in the order they were published
RECURSIVE PublishedBefore(_, _)
PublishedBefore(out, k) ==
    IF out = <<>> THEN <<>>
    ELSE LET e == out[Len(out)]
             rest == PublishedBefore(SubSeq(out, 1, Len(out) - 1), k)
         IN  IF e.ev = "new_line" /\ e.step >= 1 /\ e.step < k
             THEN rest \o e.line \o <<"\n">>
             ELSE rest

\* C14: the published line of turn 1 is the first persona's name with the
\* fixed opener, the adapter is never called for turn 1, and every call of
\* the adapter is for a turn of index 2 or more with the lines published for
\* the earlier turns as its history.
C14_OpenerThenAdapter ==
    \A t \in Threads :
        LET th == threads[t]
        IN  /\ \A i \in DOMAIN th.out :
                  (th.out[i].ev = "new_line" /\ th.out[i].step = 1) =>
                      th.out[i].line = Str(Role1Name(th.data)) \o <<":", " ">> \o Opener
            /\ \A j \in DOMAIN th.gen :
                  /\ th.gen[j].step >= 2
                  /\ th.gen[j].history = PublishedBefore(th.out, th.gen[j].step)

\* the gpu_status payloads published so far: the last broadcast of the
\* monitor and the last one sent to a connecting client
Published == {monitor.broadcast, monitor.connect} \ {NoPayload}

\* C15 as stated: the status is 'unavailable' without an accelerator, 'busy'
\* above 80%, 'free' at or below 80%, 'error' when the query fails, for the
\* broadcast of a tick and for the payload sent on connect alike.
C15_ClassificationUnavailable ==
    \A p \in Published :
        p.status = IF p.sample.k = "raises" THEN "error"
                   ELSE IF p.sample.k = "none" THEN "unavailable"
                   ELSE IF p.sample.load > 80 THEN "busy" ELSE "free"

\* C15 amended: the same rule with the status 'no_gpu' when no accelerator
\* is present.
C15_Classification ==
    \A p \in Published :
        p.status = IF p.sample.k = "raises" THEN "error"
                   ELSE IF p.sample.k = "none" THEN "no_gpu"
                   ELSE IF p.sample.load > 80 THEN "busy" ELSE "free"
\* a tick broadcast 'free' at exactly 80% and a client connected at 95%
C15_Witness ==
    /\ monitor.broadcast # NoPayload /\ monitor.connect # NoPayload
    /\ monitor.broadcast.sample = [k |-> "gpu", load |-> 80]
    /\ monitor.broadcast.status = "free"
    /\ monitor.connect.sample = [k |-> "gpu", load |-> 95]
    /\ monitor.connect.status = "busy"


\* C20: no exception terminates the Resource Monitor: whatever fails in a
\* tick (the accelerator query, the broadcast of gpu_status), the thread of
\* update_gpu_status is still in its loop.
C20_MonitorSurvives == monitor.pc \in {"check", "emit", "sleep"}


\* the terminal notifications of a dialog
TerminalKinds == {"dialog_completed", "dialog_stopped"}
\* the handler is in the turn loop or in its finalization, before the terminal
\* notification
InDialog(t) ==
    threads[t].pc \in {"loop", "sleep", "publish", "append", "store", "after_loop",
                       "archive", "terminal"}

\* C16: the turn count of a terminal notification equals the number of
\* new_line events emitted for that dialog, wherever a cancellation was
\* observed.
C16_TerminalCountsLines ==
    \A t \in Threads :
        \A i \in DOMAIN threads[t].out :
            threads[t].out[i].ev \in TerminalKinds =>
                threads[t].out[i].step = Count(threads[t].out, {"new_line"})

\* C17: the terminal notification is dialog_completed exactly when the loop
\* ran through all N turns (N new_line events were emitted), and
\* dialog_stopped exactly when it left at a checkpoint, for every timing of
\* the stop_dialog and start_dialog requests.
C17_TerminalKindMatchesExit ==
    \A t \in Threads :
        \A i \in DOMAIN threads[t].out :
            threads[t].out[i].ev \in TerminalKinds =>
                (threads[t].out[i].ev = "dialog_completed"
                    <=> Count(threads[t].out, {"new_line"}) = NumSteps(threads[t].data).v)

\* C18: while a dialog runs, the stored transcript of its connection is the
\* concatenation, in order, of the lines of the new_line events emitted so
\* far; no other handler invocation shortens or replaces it.
C18_TranscriptAppendOnly ==
    \A t \in Threads :
        InDialog(t) =>
            /\ threads[t].sid \in DOMAIN dialogs
            /\ dialogs[threads[t].sid] =
                  PublishedBefore(threads[t].out, Len(threads[t].out) + 1)

\* C19: once stop_dialog has set the flag of a running dialog it stays true
\* until the terminal notification; a start_dialog that the gate denies
\* leaves every flag unchanged.  Stated for a stop_dialog sent while a turn of
\* the dialog was in progress, at moments when no request of the same
\* connection is still waiting to make its attempt on the gate.
C19_FlagMonotone ==
    \A t \in Threads :
        (/\ InDialog(t) /\ threads[t].stopSent /\ threads[t].stopAt > 0
         /\ \A u \in Threads : threads[u].sid = threads[t].sid => threads[u].pc \notin {"init", "acquire"})
            => FlagGet(stop_flags, threads[t].sid)

====
